---- MODULE Spec2Model ----
(***************************************************************************)
(* Model of the meme generator: the caption layout routines of             *)
(* app/utils/image_utils.py, MemeService of app/services/meme_service.py   *)
(* and the routes of app/api/routes_meme.py.                               *)
(*                                                                         *)
(* A string is a sequence of one-character strings, so that str.split,     *)
(* " ".join and str.upper are computed and not assumed.  A font is a       *)
(* record [size |-> n]; the pixel width of a string is the sum of its      *)
(* glyph advances at that size.  Python's int() is truncation toward zero  *)
(* and // is floor division; the float products h*0.05, h*0.95 and w*0.9   *)
(* are the exact rationals h/20, 19h/20 and 9w/10 on the integer sizes     *)
(* used here.                                                              *)
(***************************************************************************)
EXTENDS Integers, Sequences, FiniteSets, TLC

VARIABLES
    \* ---- layout: one call of _add_text_to_image / calculate_text_position
    text,        \* the caption string handed to the routine
    font,        \* the font resource
    image_size,  \* <<width, height>> of the image
    position,    \* "top" | "bottom"
    pc,          \* "init" | "drawn" | "positioned"
    lines,       \* the lines wrap_text returned
    y_start,     \* the vertical start computed for the block
    drawn,       \* the draw.text calls made, in order
    xy,          \* the result of calculate_text_position
    \* ---- service and routes
    templates,   \* the files of app/static/templates
    outputs,     \* the files of the output directory
    clock,       \* source of the timestamp/uuid part of generated names
    route,       \* the entry point of the last request
    request,     \* the last request as received
    args,        \* the arguments generate_meme was called with, or NoCall
    used,        \* the style generate_meme resolved (lines 67-70), or NoCall
    result,      \* what generate_meme returned, or NoCall / Raised
    response,    \* the HTTP response of the last request
    ai_configured \* whether the AI client has a model (GOOGLE_API_KEY set)

layoutVars == <<text, font, image_size, position, pc, lines, y_start, drawn, xy>>
serviceVars ==
    <<templates, outputs, clock, route, request, args, used, result, response, ai_configured>>
vars == <<text, font, image_size, position, pc, lines, y_start, drawn, xy,
          templates, outputs, clock, route, request, args, used, result, response,
          ai_configured>>

(***************************************************************************)
(* Bounds of the explored inputs.                                          *)
(***************************************************************************)
MaxLen == 6
MaxWidth == 8
MaxHeight == 21
MaxMemes == 2

NoCall == [t |-> "NoCall"]
Raised == [t |-> "Raised"]

(***************************************************************************)
(* Strings.                                                                *)
(***************************************************************************)
Whitespace == {" ", "\t", "\n"}

Alphabet == {"a", " "}

RECURSIVE StringsUpTo(_)
StringsUpTo(n) ==
    IF n = 0 THEN {<<>>}
    ELSE LET shorter == StringsUpTo(n - 1)
         IN shorter \cup {Append(s, c) : s \in {t \in shorter : Len(t) = n - 1}, c \in Alphabet}

ExtraTexts ==
    {<<"a", "\t", "a">>, <<"a", "\n">>, <<"W">>, <<"W", " ", "a">>,
     <<"a", "W", " ", "W">>, <<"W", " ", "W", "\n", "a">>,
     <<"a", " ", "a", " ", "W", "W">>, <<"W", "W", " ", "a", " ", "a">>}

\* _add_text_to_image is only called with a non-empty caption (lines 89, 102)
Texts == (StringsUpTo(MaxLen) \cup ExtraTexts) \ {<<>>}

\* str.upper()
upper(s) == [i \in 1..Len(s) |-> IF s[i] = "a" THEN "A" ELSE s[i]]

\* str.split(): the maximal runs of non-whitespace characters, in order
RECURSIVE split_from(_, _, _, _)
split_from(s, i, word, words) ==
    IF i > Len(s)
    THEN IF word # <<>> THEN Append(words, word) ELSE words
    ELSE IF s[i] \in Whitespace
         THEN split_from(s, i + 1, <<>>, IF word # <<>> THEN Append(words, word) ELSE words)
         ELSE split_from(s, i + 1, Append(word, s[i]), words)

split(s) == split_from(s, 1, <<>>, <<>>)

\* " ".join(words)
RECURSIVE join(_)
join(words) ==
    IF words = <<>> THEN <<>>
    ELSE IF Len(words) = 1 THEN words[1]
    ELSE words[1] \o <<" ">> \o join(Tail(words))

(***************************************************************************)
(* Font measurement (ImageDraw.textbbox).                                  *)
(***************************************************************************)
glyph_units(c) ==
    CASE c = "a" -> 1
      [] c = "A" -> 2
      [] c = "W" -> 3
      [] OTHER -> 1

RECURSIVE text_width(_, _)
\* bbox[2] - bbox[0] of textbbox((0, 0), s, font=font)
text_width(s, f) ==
    IF s = <<>> THEN 0 ELSE glyph_units(Head(s)) * f.size + text_width(Tail(s), f)

\* textbbox((0, 0), "A", font=font)[3]
line_height_of(f) == f.size

\* Python int(): truncation toward zero of num/den, den > 0
int_trunc(num, den) ==
    IF num >= 0 THEN num \div den ELSE -((-num) \div den)

(***************************************************************************)
(* wrap_text                                                               *)
(***************************************************************************)
fits_word_only(current_line, word, f, max_width) ==
    text_width(word, f) <= max_width

fits_strict(current_line, word, f, max_width) ==
    text_width(join(Append(current_line, word)), f) < max_width

\* lines 120-124: the candidate line is measured against the budget
fits(current_line, word, f, max_width) ==
    text_width(join(Append(current_line, word)), f) <= max_width

wrap_step_drop(st, word, f, max_width) ==
    IF fits(st.current_line, word, f, max_width)
    THEN [st EXCEPT !.current_line = Append(@, word)]
    ELSE IF st.current_line # <<>>
         THEN [current_line |-> <<>>,
               lines |-> Append(st.lines, join(st.current_line))]
         ELSE [st EXCEPT !.lines = Append(@, word)]

\* lines 119-131: one iteration of the loop over the words
wrap_step(st, word, f, max_width) ==
    IF fits(st.current_line, word, f, max_width)
    THEN [st EXCEPT !.current_line = Append(@, word)]
    ELSE IF st.current_line # <<>>
         THEN [current_line |-> <<word>>,
               lines |-> Append(st.lines, join(st.current_line))]
         ELSE [st EXCEPT !.lines = Append(@, word)]

RECURSIVE wrap_loop(_, _, _, _, _)
wrap_loop(words, i, st, f, max_width) ==
    IF i > Len(words) THEN st
    ELSE wrap_loop(words, i + 1, wrap_step(st, words[i], f, max_width), f, max_width)

wrap_text_no_flush(s, f, max_width) ==
    wrap_loop(split(s), 1, [current_line |-> <<>>, lines |-> <<>>], f, max_width).lines

\* lines 111-136
wrap_text(s, f, max_width) ==
    LET st == wrap_loop(split(s), 1, [current_line |-> <<>>, lines |-> <<>>], f, max_width)
    IN IF st.current_line # <<>>
       THEN Append(st.lines, join(st.current_line))
       ELSE st.lines

(***************************************************************************)
(* calculate_text_position and MemeService._add_text_to_image              *)
(***************************************************************************)
center_x_unhalved(img_width, width) == img_width \div 2 - width

\* (img_width - text_width) // 2
center_x(img_width, width) == (img_width - width) \div 2

\* int(img_width * 0.9)
max_width_of(img_width) == int_trunc(9 * img_width, 10)

y_start_of_same_margin(pos, img_height, total_height) ==
    IF pos = "top"
    THEN int_trunc(img_height, 20)
    ELSE int_trunc(img_height - 20 * total_height, 20)

\* lines 158-161: int(img_height * 0.05) or int(img_height * 0.95 - total_height)
y_start_of(pos, img_height, total_height) ==
    IF pos = "top"
    THEN int_trunc(img_height, 20)
    ELSE int_trunc(19 * img_height - 20 * total_height, 20)

\* image_utils.calculate_text_position: <<x, y>> of one unwrapped string
calculate_text_position(size, s, f, pos) ==
    LET width == text_width(s, f)
        height == IF s = <<>> THEN 0 ELSE line_height_of(f)
    IN <<center_x(size[1], width), y_start_of(pos, size[2], height)>>

draw_call(x, y, line, f, font_color, stroke_color, stroke_width) ==
    [xy |-> <<x, y>>, text |-> line, font |-> f, fill |-> font_color,
     stroke_width |-> stroke_width, stroke_fill |-> stroke_color]

add_text_to_image_no_step(size, s, f, font_color, stroke_color, stroke_width, pos) ==
    LET wrapped == wrap_text(upper(s), f, max_width_of(size[1]))
        line_height == line_height_of(f)
        total_height == line_height * Len(wrapped)
        y0 == y_start_of(pos, size[2], total_height)
    IN [lines |-> wrapped,
        y_start |-> y0,
        calls |-> [i \in 1..Len(wrapped) |->
                     draw_call(center_x(size[1], text_width(wrapped[i], f)),
                               y0 + line_height,
                               wrapped[i], f, font_color, stroke_color, stroke_width)]]

\* MemeService._add_text_to_image: the wrapped lines, the vertical start and
\* the draw.text calls it makes, in order
add_text_to_image(size, s, f, font_color, stroke_color, stroke_width, pos) ==
    LET wrapped == wrap_text(upper(s), f, max_width_of(size[1]))
        line_height == line_height_of(f)
        total_height == line_height * Len(wrapped)
        y0 == y_start_of(pos, size[2], total_height)
    IN [lines |-> wrapped,
        y_start |-> y0,
        calls |-> [i \in 1..Len(wrapped) |->
                     draw_call(center_x(size[1], text_width(wrapped[i], f)),
                               y0 + (i - 1) * line_height,
                               wrapped[i], f, font_color, stroke_color, stroke_width)]]

(***************************************************************************)
(* The layout specification: the inputs are drawn in InitLayout and the    *)
(* routines are applied to them.                                           *)
(***************************************************************************)
Fonts == {[size |-> 1], [size |-> 2], [size |-> 11]}

IdleService ==
    /\ templates = {}
    /\ outputs = {}
    /\ clock = 0
    /\ route = ""
    /\ request = [t |-> "None"]
    /\ args = NoCall
    /\ used = NoCall
    /\ result = NoCall
    /\ response = [t |-> "None"]
    /\ ai_configured = FALSE

InitLayout ==
    /\ text \in Texts
    /\ font \in Fonts
    /\ image_size \in (1..MaxWidth) \X (1..MaxHeight)
    /\ position \in {"top", "bottom"}
    /\ pc = "init"
    /\ lines = <<>>
    /\ y_start = 0
    /\ drawn = <<>>
    /\ xy = <<0, 0>>
    /\ IdleService

AddTextToImage ==
    /\ pc = "init"
    /\ LET r == add_text_to_image(image_size, text, font, "white", "black", 2, position)
       IN /\ lines' = r.lines
          /\ y_start' = r.y_start
          /\ drawn' = r.calls
    /\ pc' = "drawn"
    /\ UNCHANGED <<text, font, image_size, position, xy>>
    /\ UNCHANGED serviceVars

CalculateTextPosition ==
    /\ pc = "init"
    /\ xy' = calculate_text_position(image_size, text, font, position)
    /\ pc' = "positioned"
    /\ UNCHANGED <<text, font, image_size, position, lines, y_start, drawn>>
    /\ UNCHANGED serviceVars

NextLayout == AddTextToImage \/ CalculateTextPosition

SpecLayout == InitLayout /\ [][NextLayout]_vars

(***************************************************************************)
(* Python values crossing the service boundary: None, an int, a name or    *)
(* colour (an atom) or a caption (a sequence of characters).  A JSON field *)
(* that the client left out is Absent.                                     *)
(***************************************************************************)
PyNone == [t |-> "None"]
PyInt(n) == [t |-> "int", v |-> n]
PyStr(a) == [t |-> "str", v |-> a]
PyText(s) == [t |-> "text", v |-> s]
Missing == [t |-> "absent"]

\* Python truthiness, as used by `x or default` and `if x:`
truthy(x) ==
    CASE x.t = "int" -> x.v # 0
      [] x.t = "str" -> x.v # ""
      [] x.t = "text" -> x.v # <<>>
      [] OTHER -> FALSE

\* x or default
py_or(x, default) == IF truthy(x) THEN x ELSE default

\* f"{x}" of a name
str_of(x) == IF x.t = "None" THEN "None" ELSE x.v

(***************************************************************************)
(* Settings (app/config/settings.py) and MemeRequest (meme_models.py)      *)
(***************************************************************************)
default_font_size == 40
default_font_color == "white"
default_stroke_color == "black"
default_stroke_width == 2

font_size_ge == 10
font_size_le == 200
stroke_width_ge == 0
stroke_width_le == 10

output_dir == "app/static/memes"

\* PIL colour names ImageColor.getrgb accepts, among the values used here
ValidColors == {"white", "black", "red", "blue"}

\* a declared field with a default: the default when left out, the value
\* (null included) otherwise
field_or(p, k, default) == IF p[k].t = "absent" THEN default ELSE p[k]

in_range(x, lo, hi) == x.t = "None" \/ (x.t = "int" /\ lo <= x.v /\ x.v <= hi)

valid_request_lenient(p) ==
    /\ p.template_name.t = "str"
    /\ p.top_text.t \in {"absent", "None", "text"}
    /\ p.bottom_text.t \in {"absent", "None", "text"}
    /\ p.font_size.t = "absent" \/ in_range(p.font_size, font_size_ge, font_size_le)
    /\ p.font_color.t \in {"absent", "None", "str"}
    /\ p.stroke_color.t \in {"absent", "None", "str"}
    /\ p.stroke_width.t = "absent" \/ in_range(p.stroke_width, stroke_width_ge, stroke_width_le)

\* pydantic validation of the JSON body against MemeRequest
valid_request(p) ==
    /\ p.template_name.t = "str"
    /\ p.top_text.t = "text"
    /\ p.bottom_text.t \in {"absent", "None", "text"}
    /\ p.font_size.t = "absent" \/ in_range(p.font_size, font_size_ge, font_size_le)
    /\ p.font_color.t \in {"absent", "None", "str"}
    /\ p.stroke_color.t \in {"absent", "None", "str"}
    /\ p.stroke_width.t = "absent" \/ in_range(p.stroke_width, stroke_width_ge, stroke_width_le)

\* the MemeRequest built from a valid body
MemeRequest(p) ==
    [template_name |-> p.template_name,
     top_text |-> p.top_text,
     bottom_text |-> field_or(p, "bottom_text", PyNone),
     font_size |-> field_or(p, "font_size", PyInt(40)),
     font_color |-> field_or(p, "font_color", PyStr("white")),
     stroke_color |-> field_or(p, "stroke_color", PyStr("black")),
     stroke_width |-> field_or(p, "stroke_width", PyInt(2))]

(***************************************************************************)
(* MemeService                                                             *)
(***************************************************************************)
templates_dir == "app/static/templates"

\* The directory part and the last component of a template name.  Names are
\* atoms; the one name with a directory part among the requests is
\* "../templates/drake".
dir_part(name) == IF name = "../templates/drake" THEN "../templates" ELSE ""

base_part(name) == IF name = "../templates/drake" THEN "drake" ELSE name

\* Path(dir) / rel on the file system: both directories lie in app/static
resolve(dir, rel) == IF rel = "../templates" THEN "app/static/templates" ELSE dir

NoFile == [stem |-> "", ext |-> ""]

Extensions == <<".jpg", ".jpeg", ".png", ".gif">>

RECURSIVE find_from(_, _, _)
find_from(dir, name, i) ==
    IF i > Len(Extensions) THEN NoFile
    ELSE IF \E f \in dir : f.stem = name /\ f.stamp = 0 /\ f.ext = Extensions[i]
         THEN CHOOSE f \in dir : f.stem = name /\ f.stamp = 0 /\ f.ext = Extensions[i]
         ELSE find_from(dir, name, i + 1)

\* file.suffix.lower()
lower_suffix(ext) == IF ext = ".PNG" THEN ".png" ELSE ext

\* file.stem of a file of the templates directory: the stem of a file saved
\* by generate_meme carries its timestamp and id
stem_of(f) == [stem |-> f.stem, stamp |-> f.stamp]

\* the order of str on the stems that occur
NameOrder == <<"bad", "doge", "drake", "notes">>

name_rank(stem) == CHOOSE i \in 1..Len(NameOrder) : NameOrder[i] = stem

name_le(f, g) ==
    \/ name_rank(f.stem) < name_rank(g.stem)
    \/ name_rank(f.stem) = name_rank(g.stem) /\ f.stamp <= g.stamp

\* sorted(templates): one entry per file, equal stems repeated
RECURSIVE sorted_stems(_)
sorted_stems(files) ==
    IF files = {} THEN <<>>
    ELSE LET f == CHOOSE f \in files : \A g \in files : name_le(f, g)
         IN <<stem_of(f)>> \o sorted_stems(files \ {f})

get_available_templates(dir) ==
    sorted_stems({f \in dir :
                    \E i \in 1..Len(Extensions) : lower_suffix(f.ext) = Extensions[i]})

find_template_fallback(dir, template_name) ==
    IF find_from(dir, base_part(str_of(template_name)), 1) = NoFile
    THEN find_from(dir, "drake", 1)
    ELSE find_from(dir, base_part(str_of(template_name)), 1)

\* MemeService._find_template: the first of name.jpg, .jpeg, .png, .gif that exists
find_template(dir, template_name) ==
    IF resolve(templates_dir, dir_part(str_of(template_name))) = templates_dir
    THEN find_from(dir, base_part(str_of(template_name)), 1)
    ELSE NoFile

\* image_utils.load_image: the decoded RGB image, or None when decoding fails
load_image(f) == IF f.content.ok THEN [t |-> "image", size |-> f.content.size] ELSE PyNone

\* image_utils.get_font: a scalable font at the size, else the built-in font
get_font(font_size) == IF font_size > 0 THEN [size |-> font_size] ELSE [size |-> 10]

\* MemeService._generate_filename: name, timestamp and uuid part, ".jpg"
generate_filename(template_name, stamp) ==
    [template_name |-> str_of(template_name), stamp |-> stamp, ext |-> ".jpg"]

resolve_style_swapped(a) ==
    [font_size |-> py_or(a.font_size, PyInt(default_font_size)),
     font_color |-> py_or(a.font_color, PyStr(default_stroke_color)),
     stroke_color |-> py_or(a.stroke_color, PyStr(default_font_color)),
     stroke_width |-> py_or(a.stroke_width, PyInt(default_stroke_width))]

\* lines 67-70: the style after defaulting
resolve_style(a) ==
    [font_size |-> py_or(a.font_size, PyInt(default_font_size)),
     font_color |-> py_or(a.font_color, PyStr(default_font_color)),
     stroke_color |-> py_or(a.stroke_color, PyStr(default_stroke_color)),
     stroke_width |-> py_or(a.stroke_width, PyInt(default_stroke_width))]

caption_calls(img, caption, style, pos) ==
    IF truthy(caption)
    THEN add_text_to_image(img.size, caption.v, get_font(style.font_size.v),
                           style.font_color.v, style.stroke_color.v,
                           style.stroke_width.v, pos).calls
    ELSE <<>>

\* Path(output_path).name: the last component of the path
path_name(path) == [path.name EXCEPT !.template_name = base_part(@)]

\* the directory img.save(output_path) creates the file in
save_dir(path) == resolve(path.dir, dir_part(path.name.template_name))

\* the file a successful img.save leaves in the templates directory, if the
\* path leads there
saved_template(path, img) ==
    IF save_dir(path) = templates_dir
    THEN {[stem |-> path_name(path).template_name, stamp |-> path.name.stamp,
           ext |-> path.name.ext, content |-> [ok |-> TRUE, size |-> img.size]]}
    ELSE {}

\* the file a successful img.save leaves in the output directory, if the path
\* leads there
saved_output(path) == IF save_dir(path) = output_dir THEN {path_name(path)} ELSE {}

Failure(message) == [success |-> FALSE, message |-> message, output_path |-> PyNone]

generate_meme_save_unchecked(dir, outs, clk, a, save_ok) ==
    LET style == resolve_style(a)
        template_path == find_template(dir, a.template_name)
        img == load_image(template_path)
        calls == caption_calls(img, a.top_text, style, "top")
                     \o caption_calls(img, a.bottom_text, style, "bottom")
        filename == generate_filename(a.template_name, clk + 1)
        output_path == [dir |-> output_dir, name |-> filename]
        quiet == [used |-> style, drawn |-> <<>>, outputs |-> outs, clock |-> clk,
                  templates |-> dir]
    IN IF template_path = NoFile
       THEN quiet @@
            [result |-> Failure(<<"Template '", str_of(a.template_name), "' not found">>)]
       ELSE IF img = PyNone
       THEN quiet @@ [result |-> Failure(<<"Failed to load template image">>)]
       ELSE IF calls # <<>> /\ ~({style.font_color.v, style.stroke_color.v} \subseteq ValidColors)
       THEN quiet @@ [result |-> Raised]
       ELSE [used |-> style, drawn |-> calls,
             outputs |-> IF save_ok THEN outs \cup saved_output(output_path) ELSE outs,
             templates |-> IF save_ok THEN dir \cup saved_template(output_path, img) ELSE dir,
             clock |-> clk + 1,
             result |-> [success |-> TRUE,
                         message |-> <<"Meme generated successfully">>,
                         output_path |-> output_path]]

\* MemeService.generate_meme on the directory dir, the output files outs and
\* the name source clk; save_ok is whether img.save succeeds
generate_meme(dir, outs, clk, a, save_ok) ==
    LET style == resolve_style(a)
        template_path == find_template(dir, a.template_name)
        img == load_image(template_path)
        calls == caption_calls(img, a.top_text, style, "top")
                     \o caption_calls(img, a.bottom_text, style, "bottom")
        filename == generate_filename(a.template_name, clk + 1)
        output_path == [dir |-> output_dir, name |-> filename]
        quiet == [used |-> style, drawn |-> <<>>, outputs |-> outs, clock |-> clk,
                  templates |-> dir]
    IN IF template_path = NoFile
       THEN quiet @@
            [result |-> Failure(<<"Template '", str_of(a.template_name), "' not found">>)]
       ELSE IF img = PyNone
       THEN quiet @@ [result |-> Failure(<<"Failed to load template image">>)]
       ELSE IF calls # <<>> /\ ~({style.font_color.v, style.stroke_color.v} \subseteq ValidColors)
       THEN quiet @@ [result |-> Raised]
       ELSE IF save_ok
       THEN [used |-> style, drawn |-> calls,
             outputs |-> outs \cup saved_output(output_path),
             templates |-> dir \cup saved_template(output_path, img),
             clock |-> clk + 1,
             result |-> [success |-> TRUE,
                         message |-> <<"Meme generated successfully">>,
                         output_path |-> output_path]]
       ELSE [used |-> style, drawn |-> calls, outputs |-> outs, templates |-> dir,
             clock |-> clk + 1,
             result |-> Failure(<<"Failed to save meme: ", "OSError">>)]

(***************************************************************************)
(* Routes (app/api/routes_meme.py)                                         *)
(***************************************************************************)
BaseUrl == "http://testserver"

HttpError(status, detail) == [status |-> status, body |-> [detail |-> detail]]

\* lines 36-54 and 115-129: the response made of what generate_meme returned
respond(r, extra) ==
    IF r = Raised THEN HttpError(500, <<"Internal server error: ", "ValueError">>)
    ELSE IF ~r.success THEN HttpError(400, r.message)
    ELSE [status |-> 200,
          body |-> [success |-> TRUE, message |-> r.message,
                    meme_url |-> <<BaseUrl, "/static/memes/", path_name(r.output_path)>>,
                    filename |-> path_name(r.output_path)] @@ extra]

\* args.get(k) / args.get(k, default) on the model's function-call arguments
args_get(a, k, default) == IF a[k].t = "absent" THEN default ELSE a[k]

\* lines 108-113: the service arguments taken from a generate_meme function call
ai_service_args(a) ==
    [template_name |-> args_get(a, "template_name", PyNone),
     top_text |-> args_get(a, "top_text", PyNone),
     bottom_text |-> args_get(a, "bottom_text", PyNone),
     font_size |-> args_get(a, "font_size", PyInt(40)),
     font_color |-> PyNone,
     stroke_color |-> PyNone,
     stroke_width |-> PyNone]

\* lines 102-103: the first generate_meme call among the function calls, or 0
first_meme_call(calls) ==
    IF \E i \in 1..Len(calls) : calls[i].name = "generate_meme"
    THEN CHOOSE i \in 1..Len(calls) :
             /\ calls[i].name = "generate_meme"
             /\ \A j \in 1..(i - 1) : calls[j].name # "generate_meme"
    ELSE 0

(***************************************************************************)
(* The service specification: requests arrive one at a time at the two     *)
(* POST routes or, as in the tests, as direct calls of the service.        *)
(***************************************************************************)
Image(w, h) == [ok |-> TRUE, size |-> <<w, h>>]

Corrupt == [ok |-> FALSE]

TemplateDir ==
    {[stem |-> "drake", stamp |-> 0, ext |-> ".jpg", content |-> Image(500, 400)],
     [stem |-> "drake", stamp |-> 0, ext |-> ".png", content |-> Image(300, 300)],
     [stem |-> "doge", stamp |-> 0, ext |-> ".PNG", content |-> Image(200, 200)],
     [stem |-> "bad", stamp |-> 0, ext |-> ".gif", content |-> Corrupt],
     [stem |-> "notes", stamp |-> 0, ext |-> ".txt", content |-> Corrupt]}

Caption == <<"a", " ", "W">>

Edges(lo, hi) == {PyInt(lo - 1), PyInt(lo), PyInt(hi), PyInt(hi + 1)}

Payloads ==
    [template_name : {Missing, PyNone, PyStr("drake"), PyStr("bad"), PyStr("ghost"),
                      PyStr("../templates/drake")},
     top_text : {Missing, PyText(<<>>), PyText(Caption)},
     bottom_text : {Missing, PyText(Caption)},
     font_size : {Missing, PyNone} \cup Edges(font_size_ge, font_size_le),
     font_color : {Missing, PyNone, PyStr("red"), PyStr("bogus")},
     stroke_color : {Missing, PyStr("blue")},
     stroke_width : {Missing, PyNone, PyInt(1)} \cup Edges(stroke_width_ge, stroke_width_le)]

AIArgs ==
    [template_name : {Missing, PyStr("drake"), PyStr("ghost")},
     top_text : {Missing, PyText(Caption)},
     bottom_text : {Missing, PyText(Caption)},
     font_size : {Missing, PyInt(0), PyInt(5), PyInt(40), PyInt(500)}]

OtherCall == [name |-> "get_available_meme_templates", args |-> <<>>]

MemeCall(a) == [name |-> "generate_meme", args |-> a]

FunctionCalls ==
    {<<>>, <<OtherCall>>}
        \cup {<<MemeCall(a)>> : a \in AIArgs}
        \cup {<<OtherCall, MemeCall(a)>> : a \in AIArgs}
        \cup {<<MemeCall(a), OtherCall>> : a \in AIArgs}

AIResults == {PyNone} \cup {[t |-> "result", text |-> "ok", function_calls |-> c] : c \in FunctionCalls}

DirectArgs ==
    [template_name : {PyStr("drake"), PyStr("invalid_template_xyz"), PyStr("doge"),
                      PyStr("../templates/drake")},
     top_text : {PyText(Caption)},
     bottom_text : {PyNone, PyText(Caption)},
     font_size : {PyNone, PyInt(0), PyInt(300)},
     font_color : {PyNone},
     stroke_color : {PyNone},
     stroke_width : {PyNone, PyInt(0), PyInt(3)}]

Init ==
    /\ text = <<>>
    /\ font = [size |-> 1]
    /\ image_size = <<1, 1>>
    /\ position = "top"
    /\ pc = "idle"
    /\ lines = <<>>
    /\ y_start = 0
    /\ drawn = <<>>
    /\ xy = <<0, 0>>
    /\ templates = TemplateDir
    /\ outputs = {}
    /\ clock = 0
    /\ route = ""
    /\ request = PyNone
    /\ args = NoCall
    /\ used = NoCall
    /\ result = NoCall
    /\ response = PyNone
    /\ ai_configured \in BOOLEAN

\* the handler did not reach the service
NotServed(resp) ==
    /\ response' = resp
    /\ args' = NoCall
    /\ used' = NoCall
    /\ result' = NoCall
    /\ UNCHANGED <<drawn, outputs, clock, templates>>

\* meme_service.generate_meme(...) called with a, and the route's answer
Served(a, save_ok, extra, http) ==
    LET r == generate_meme(templates, outputs, clock, a, save_ok)
    IN /\ r.clock <= MaxMemes
       /\ args' = a
       /\ used' = r.used
       /\ result' = r.result
       /\ drawn' = r.drawn
       /\ outputs' = r.outputs
       /\ templates' = r.templates
       /\ clock' = r.clock
       /\ response' = IF http THEN respond(r.result, extra) ELSE PyNone

\* POST /api/meme/generate
PostGenerate ==
    /\ pc = "idle"
    /\ \E p \in Payloads, save_ok \in BOOLEAN :
          /\ route' = "/api/meme/generate"
          /\ request' = p
          /\ IF valid_request(p)
             THEN Served(MemeRequest(p), save_ok, <<>>, TRUE)
             ELSE NotServed(HttpError(422, <<"validation error">>))
    /\ pc' = "responded"
    /\ UNCHANGED <<text, font, image_size, position, lines, y_start, xy, ai_configured>>

\* POST /api/meme/generate-with-ai
PostGenerateWithAI ==
    /\ pc = "idle"
    /\ \E answer \in AIResults, save_ok \in BOOLEAN :
          /\ route' = "/api/meme/generate-with-ai"
          /\ request' = answer
          /\ IF ~ai_configured
             THEN NotServed(HttpError(503, <<"AI service is not configured">>))
             ELSE IF answer = PyNone
             THEN NotServed(HttpError(500, <<"Failed to generate AI response">>))
             ELSE IF first_meme_call(answer.function_calls) = 0
             THEN NotServed([status |-> 200,
                             body |-> [success |-> FALSE,
                                       message |-> <<"AI did not generate a meme">>,
                                       ai_response |-> answer.text]])
             ELSE Served(ai_service_args(
                             answer.function_calls[first_meme_call(answer.function_calls)].args),
                         save_ok, [ai_interpretation |-> answer.text], TRUE)
    /\ pc' = "responded"
    /\ UNCHANGED <<text, font, image_size, position, lines, y_start, xy, ai_configured>>

\* meme_service.generate_meme called directly, as the tests do
CallGenerateMeme ==
    /\ pc = "idle"
    /\ \E a \in DirectArgs, save_ok \in BOOLEAN :
          /\ route' = "meme_service"
          /\ request' = a
          /\ Served(a, save_ok, <<>>, FALSE)
    /\ pc' = "responded"
    /\ UNCHANGED <<text, font, image_size, position, lines, y_start, xy, ai_configured>>

\* the request is over: what belonged to it is discarded
\* GET /api/meme/templates
GetTemplates ==
    /\ pc = "idle"
    /\ pc' = "responded"
    /\ route' = "/api/meme/templates"
    /\ request' = PyNone
    /\ NotServed(LET listing == get_available_templates(templates)
                 IN [status |-> 200,
                     body |-> [templates |-> listing, count |-> Len(listing)]])
    /\ UNCHANGED <<text, font, image_size, position, lines, y_start, xy, ai_configured>>

EndRequest ==
    /\ pc = "responded"
    /\ pc' = "idle"
    /\ route' = ""
    /\ request' = PyNone
    /\ args' = NoCall
    /\ used' = NoCall
    /\ result' = NoCall
    /\ response' = PyNone
    /\ drawn' = <<>>
    /\ UNCHANGED <<text, font, image_size, position, lines, y_start, xy,
                   templates, outputs, clock, ai_configured>>

Next == PostGenerate \/ PostGenerateWithAI \/ CallGenerateMeme \/ GetTemplates \/ EndRequest

Spec == Init /\ [][Next]_vars

(***************************************************************************)
(* Properties of the layout routines, checked under SpecLayout.            *)
(***************************************************************************)
RECURSIVE words_of_lines(_)
words_of_lines(ls) ==
    IF ls = <<>> THEN <<>> ELSE split(Head(ls)) \o words_of_lines(Tail(ls))

Budget == max_width_of(image_size[1])

Words == split(upper(text))

Normalised == join(Words)

BlockHeight == line_height_of(font) * Len(lines)

OtherPosition == IF position = "top" THEN "bottom" ELSE "top"

OtherYStart ==
    add_text_to_image(image_size, text, font, "white", "black", 2, OtherPosition).y_start

TopYStart == IF position = "top" THEN y_start ELSE OtherYStart

BottomYStart == IF position = "bottom" THEN y_start ELSE OtherYStart

\* C1: the words of the returned lines, read line by line, are exactly the
\* whitespace-separated words of the wrapped text, in the same order: no word
\* is dropped, reordered or duplicated, oversized words included.
C1_WrapCoverage ==
    pc = "drawn" => words_of_lines(lines) = Words

C1_Witness ==
    /\ pc = "drawn"
    /\ Len(lines) >= 2
    /\ Len(Words) > Len(lines)
    /\ \E i \in 1..Len(Words) : text_width(Words[i], font) > Budget

\* C2: every returned line of more than one word measures at most the
\* budget int(0.9 * image width); only a one-word line may exceed it.
C2_WrapBudget ==
    pc = "drawn" =>
        \A i \in 1..Len(lines) :
            Len(split(lines[i])) > 1 => text_width(lines[i], font) <= Budget

C2_Witness ==
    /\ pc = "drawn"
    /\ \E i \in 1..Len(lines) : Len(split(lines[i])) > 1
    /\ \E i \in 1..Len(lines) : text_width(lines[i], font) > Budget

\* C3 as stated: a caption whose (upper-cased) measured width is within the
\* budget wraps to exactly one line equal to the upper-cased caption,
\* whatever whitespace it contains.
C3_ShortTextOneLine ==
    (pc = "drawn" /\ text_width(upper(text), font) <= Budget)
        => lines = <<upper(text)>>

\* C3 amended: a caption with at least one word whose upper-cased words,
\* joined by single spaces, measure within the budget (every leading run of
\* them too) wraps to exactly one line, equal to those words joined by
\* single spaces; that line is the upper-cased caption itself when the
\* caption has no leading, trailing, repeated or non-space whitespace.
C3_ShortTextOneLineAmended ==
    (/\ pc = "drawn"
     /\ Words # <<>>
     /\ \A k \in 1..Len(Words) : text_width(join(SubSeq(Words, 1, k)), font) <= Budget)
        => /\ lines = <<Normalised>>
           /\ (upper(text) = Normalised => lines = <<upper(text)>>)

C3_Witness ==
    /\ pc = "drawn"
    /\ Len(Words) >= 2
    /\ text_width(Normalised, font) <= Budget
    /\ upper(text) # Normalised
    /\ text # upper(text)
    /\ lines = <<Normalised>>

\* C4 as stated: for the same caption and image, the top slot's vertical
\* start is strictly less than the bottom slot's whenever the block height
\* is less than the image height.
C4_TopAboveBottom ==
    (pc = "drawn" /\ BlockHeight < image_size[2]) => TopYStart < BottomYStart

\* C4 amended: the top slot's vertical start is strictly less than the
\* bottom slot's whenever the block height plus one pixel is at most 90% of
\* the image height.
C4_TopAboveBottomAmended ==
    (pc = "drawn" /\ 10 * (BlockHeight + 1) <= 9 * image_size[2])
        => TopYStart < BottomYStart

C4_Witness ==
    /\ pc = "drawn"
    /\ Len(lines) >= 2
    /\ 10 * (BlockHeight + 1) <= 9 * image_size[2]
    /\ TopYStart > 0
    /\ TopYStart < BottomYStart

\* C5: every horizontal start x = floor((image width - line width) / 2)
\* puts the line's centre within half a pixel of the image's centre:
\* |2x + lineWidth - imageWidth| <= 1, also for lines wider than the image.
Centred(x, width) ==
    LET off == 2 * x + width - image_size[1]
    IN -1 <= off /\ off <= 1

C5_Centering ==
    /\ pc = "drawn" =>
          \A i \in 1..Len(drawn) :
              Centred(drawn[i].xy[1], text_width(drawn[i].text, font))
    /\ pc = "positioned" => Centred(xy[1], text_width(text, font))

C5_Witness ==
    /\ pc = "drawn"
    /\ \E i \in 1..Len(drawn) :
          /\ drawn[i].xy[1] < 0
          /\ 2 * drawn[i].xy[1] + text_width(drawn[i].text, font) - image_size[1] = -1
    /\ \E i \in 1..Len(drawn) : drawn[i].xy[1] > 0

\* the line-by-line stacking of the drawn block, in reading order
Stacked ==
    /\ Len(drawn) = Len(lines)
    /\ \A i \in 1..Len(drawn) :
          /\ drawn[i].text = lines[i]
          /\ drawn[i].xy[2] = y_start + (i - 1) * line_height_of(font)

BlockBottom == y_start + BlockHeight

\* C13 as stated: for the bottom slot the lines are drawn at
\* y_start + i * lineHeight in reading order and the bottom of the block,
\* y_start + lineHeight * lineCount, is floor(0.95 * image height) for every
\* line count and line height, blocks taller than the image included.
C13_BottomMargin ==
    (pc = "drawn" /\ position = "bottom")
        => /\ Stacked
           /\ BlockBottom = (19 * image_size[2]) \div 20

\* C13 amended: for the bottom slot the lines are drawn at
\* y_start + i * lineHeight in reading order, unclamped; the bottom of the
\* block is floor(0.95 * image height) when the block height is at most
\* 0.95 * image height, and ceil(0.95 * image height) when it is larger
\* (int() truncates the negative start toward zero).
C13_BottomMarginAmended ==
    (pc = "drawn" /\ position = "bottom")
        => /\ Stacked
           /\ BlockBottom = IF 20 * BlockHeight <= 19 * image_size[2]
                            THEN (19 * image_size[2]) \div 20
                            ELSE -((-(19 * image_size[2])) \div 20)

C13_Witness ==
    /\ pc = "drawn"
    /\ position = "bottom"
    /\ Len(drawn) >= 2
    /\ y_start < 0
    /\ BlockHeight > image_size[2]
    /\ BlockBottom = (19 * image_size[2]) \div 20 + 1
    /\ drawn[2].xy[2] > drawn[1].xy[2]

FirstWord(line) == split(line)[1]

\* C14: wrap_text is greedy: each line, joined by a space with the first word
\* of the next line, measures more than max_width (no break where the word
\* would have fitted), and two words that each fit alone but not together
\* end up on two separate lines.
C14_Greedy ==
    pc = "drawn" =>
        /\ \A k \in 1..(Len(lines) - 1) :
              text_width(lines[k] \o <<" ">> \o FirstWord(lines[k + 1]), font) > Budget
        /\ (/\ Len(Words) = 2
            /\ text_width(Words[1], font) <= Budget
            /\ text_width(Words[2], font) <= Budget
            /\ text_width(Normalised, font) > Budget)
              => lines = <<Words[1], Words[2]>>

C14_Witness ==
    /\ pc = "drawn"
    /\ Len(Words) = 2
    /\ text_width(Words[1], font) <= Budget
    /\ text_width(Words[2], font) <= Budget
    /\ text_width(Normalised, font) = Budget + 1
    /\ lines = <<Words[1], Words[2]>>

(***************************************************************************)
(* Properties of the service and the routes, checked under Spec.           *)
(***************************************************************************)
ServiceCalled == pc = "responded" /\ args # NoCall

HasTemplateFile(name) ==
    /\ resolve(templates_dir, dir_part(name)) = templates_dir
    /\ \E f \in templates : f.stem = base_part(name) /\ f.stamp = 0

OmittedStyle(k) ==
    /\ ServiceCalled
    /\ IF route = "/api/meme/generate" THEN request[k].t \in {"absent", "None"}
       ELSE IF route = "meme_service" THEN request[k].t = "None"
       ELSE k # "font_size"
            \/ request.function_calls[first_meme_call(request.function_calls)]
                   .args.font_size.t = "absent"

\* C6: generate_meme with a template name for which no template file exists
\* returns a non-success result whose message says the template was not found
\* and whose output path is null, writes no output file, and
\* POST /api/meme/generate answers such a request with HTTP 400.
C6_UnknownTemplate ==
    [][(ServiceCalled' /\ ~HasTemplateFile(str_of(args'.template_name)))
          => /\ result' # Raised
             /\ result'.success = FALSE
             /\ result'.message = <<"Template '", str_of(args'.template_name), "' not found">>
             /\ result'.output_path = PyNone
             /\ outputs' = outputs
             /\ (route' = "/api/meme/generate" => response'.status = 400)]_vars

C6_Witness ==
    /\ ServiceCalled
    /\ route = "/api/meme/generate"
    /\ args.template_name = PyStr("ghost")
    /\ ~HasTemplateFile("ghost")
    /\ result.success = FALSE
    /\ response.status = 400
    /\ outputs # {}

\* C7: the stroke width used for drawing equals the supplied outline width
\* for every supplied value in 0..10; in particular outline width 0 draws
\* every caption line with stroke width 0.
C7_StrokeWidthAsSupplied ==
    (/\ ServiceCalled
     /\ args.stroke_width.t = "int"
     /\ args.stroke_width.v \in 0..10)
        => \A i \in 1..Len(drawn) : drawn[i].stroke_width = args.stroke_width.v

\* C8: a style parameter that is omitted (absent or null) is drawn with the
\* documented default: font size 40, fill "white", outline "black", outline
\* width 2; a request that omits all four is never answered with an error of
\* its own (no exception, no validation error).
C8_StyleDefaulting ==
    /\ OmittedStyle("font_size") =>
          /\ used.font_size = PyInt(40)
          /\ \A i \in 1..Len(drawn) : drawn[i].font = get_font(40)
    /\ OmittedStyle("font_color") =>
          /\ used.font_color = PyStr("white")
          /\ \A i \in 1..Len(drawn) : drawn[i].fill = "white"
    /\ OmittedStyle("stroke_color") =>
          /\ used.stroke_color = PyStr("black")
          /\ \A i \in 1..Len(drawn) : drawn[i].stroke_fill = "black"
    /\ OmittedStyle("stroke_width") =>
          /\ used.stroke_width = PyInt(2)
          /\ \A i \in 1..Len(drawn) : drawn[i].stroke_width = 2
    /\ (/\ OmittedStyle("font_size")
        /\ OmittedStyle("font_color")
        /\ OmittedStyle("stroke_color")
        /\ OmittedStyle("stroke_width"))
          => /\ result # Raised
             /\ (route # "meme_service" => response.status \in {200, 400})

C8_Witness ==
    /\ ServiceCalled
    /\ route = "/api/meme/generate"
    /\ request.font_size = PyNone
    /\ request.font_color = PyNone
    /\ request.stroke_color = Missing
    /\ request.stroke_width = PyNone
    /\ Len(drawn) >= 2
    /\ response.status = 200
    /\ drawn[1].stroke_width = 2
    /\ drawn[1].fill = "white"
    /\ drawn[1].font = [size |-> 40]

\* C9: on both POST routes the renderer is never invoked with a font size
\* outside 10..200 or an outline width outside 0..10.
C9_RendererRanges ==
    (pc = "responded" /\ route \in {"/api/meme/generate", "/api/meme/generate-with-ai"})
        => \A i \in 1..Len(drawn) :
               /\ drawn[i].font.size \in 10..200
               /\ drawn[i].stroke_width \in 0..10

\* C10: a POST /api/meme/generate body without template_name or without
\* top_text is answered with HTTP 422, the meme service is not invoked and
\* no output file is written.
C10_MissingRequiredField ==
    [][(/\ pc' = "responded"
        /\ route' = "/api/meme/generate"
        /\ (request'.template_name.t = "absent" \/ request'.top_text.t = "absent"))
          => /\ response'.status = 422
             /\ args' = NoCall
             /\ result' = NoCall
             /\ drawn' = <<>>
             /\ outputs' = outputs
             /\ clock' = clock]_vars

C10_Witness ==
    /\ pc = "responded"
    /\ route = "/api/meme/generate"
    /\ request.template_name.t = "absent"
    /\ request.top_text.t = "absent"
    /\ request.bottom_text = PyText(Caption)
    /\ response.status = 422
    /\ args = NoCall

\* C11: when saving the output image fails (a name was generated and no file
\* was written anywhere), generate_meme returns a non-success result with a null
\* output path, and the HTTP routes report a failure (status 400) whose body
\* carries no meme URL and no filename.
C11_SaveFailure ==
    [][(ServiceCalled' /\ clock' # clock /\ outputs' = outputs /\ templates' = templates)
          => /\ result' # Raised
             /\ result'.success = FALSE
             /\ result'.output_path = PyNone
             /\ result'.message[1] = "Failed to save meme: "
             /\ (route' # "meme_service" =>
                    /\ response'.status = 400
                    /\ response'.body.detail = result'.message
                    /\ "meme_url" \notin DOMAIN response'.body
                    /\ "filename" \notin DOMAIN response'.body)]_vars

C11_Witness ==
    /\ ServiceCalled
    /\ route = "/api/meme/generate-with-ai"
    /\ clock = 2
    /\ Cardinality(outputs) = 1
    /\ result # Raised
    /\ result.success = FALSE
    /\ drawn # <<>>
    /\ response.status = 400


\* C12: after any sequence of generate_meme calls, successful or failed, every
\* template in the template store is unchanged, and the only file a call
\* writes is a newly named file in the output directory: no step changes
\* the files of the templates directory, and a step adds at most one file,
\* not there before, to the output directory.
C12_TemplatesUntouched ==
    [][/\ templates' = templates
       /\ outputs \subseteq outputs'
       /\ Cardinality(outputs' \ outputs) <= 1
       /\ (ServiceCalled' /\ result' # Raised /\ result'.success)
             => outputs' \ outputs = {path_name(result'.output_path)}]_vars

\* C15: for every outcome of generate_meme the returned success flag is true
\* if and only if the returned output path is non-null, and a non-null path
\* names a file inside the output directory whose name starts with the
\* requested template name and ends with .jpg.
C15_OutputPath ==
    (ServiceCalled /\ result # Raised)
        => /\ result.success <=> result.output_path # PyNone
           /\ result.output_path # PyNone
                => /\ save_dir(result.output_path) = output_dir
                   /\ path_name(result.output_path) \in outputs
                   /\ result.output_path.name.template_name = str_of(args.template_name)
                   /\ result.output_path.name.ext = ".jpg"


Listed(name) ==
    \E i \in 1..Len(get_available_templates(templates)) :
        get_available_templates(templates)[i] = [stem |-> name, stamp |-> 0]

\* C16: template listing and template lookup agree: every name returned by
\* get_available_templates (and so every name GET /api/meme/templates
\* answers with) is found by _find_template, generate_meme never answers
\* "not found" for a listed name, and every name _find_template resolves
\* appears in the listing.
C16_ListingAgreesWithLookup ==
    /\ (pc = "responded" /\ route = "/api/meme/templates")
          => \A i \in 1..Len(response.body.templates) :
                response.body.templates[i].stamp = 0
                   => find_template(templates,
                                    PyStr(response.body.templates[i].stem)) # NoFile
    /\ (ServiceCalled /\ result # Raised /\ ~result.success
           /\ result.message[Len(result.message)] = "' not found")
          => ~Listed(str_of(args.template_name))
    /\ (ServiceCalled /\ find_template(templates, args.template_name) # NoFile)
          => Listed(str_of(args.template_name))

====
